---- MODULE Spec2Model ----
(***************************************************************************)
(* Byte-level and BPE tokenizers of Homework/01/scripts/tokenizer.py.      *)
(*                                                                         *)
(* A text is a sequence of Unicode code points, a byte string a sequence   *)
(* of numbers 0..255, a Python dict a sequence of <<key, value>> entries   *)
(* in insertion order (the order dict iteration and max() see).            *)
(*                                                                         *)
(* State: cls, the class of the tokenizer object; vocab (self.vocab, a     *)
(* function on the ids 0..len-1), merges (self.merges), special_ids (the   *)
(* three *_token_id attributes); the frame of train: texts, max_vocab,     *)
(* list_of_ids, remaining (the iterations left of its range); what encode  *)
(* was given and returned: enc_text, enc_ids, and enc_applied, the ids it  *)
(* substituted, one for each iteration; dec, what decode returned; mcall,  *)
(* the arguments and the result of a direct call of merge.                 *)
(***************************************************************************)
EXTENDS Integers, Sequences, FiniteSets, TLC

VARIABLES cls, vocab, merges, special_ids, pc, texts, max_vocab, list_of_ids,
          remaining, outcome, had_merges, enc_text, enc_ids, enc_applied, dec, mcall

vars == <<cls, vocab, merges, special_ids, pc, texts, max_vocab, list_of_ids,
          remaining, outcome, had_merges, enc_text, enc_ids, enc_applied, dec,
          mcall>>

-----------------------------------------------------------------------------
(* Bounds of the model *)

\* texts of a training corpus
MaxTexts == 2
\* code points of a training corpus, all texts together
MaxCorpusChars == 5
\* code points of a text given to encode
MaxEncodeChars == 4
\* max_vocab ranges up to the base vocabulary size plus this
MaxExtraVocab == 2
\* length of the list given to a direct call of merge
MaxMergeLen == 4
\* ids 0..MaxMergeId occur in the lists and pairs given to a direct call of merge
MaxMergeId == 2

\* The code points texts are made of: U+000A (one byte: 10) and
\* U+00E9 (two bytes: 195 169).
Alphabet == {10, 233}

-----------------------------------------------------------------------------
(* Program constants *)

\* range(256)
NumBytes == 256
\* U+FFFD, what errors='replace' puts for a malformed byte run
ReplacementChar == 65533

pad_token == <<60, 112, 97, 100, 62>>
bos_token == <<60, 98, 111, 115, 62>>
eos_token == <<60, 101, 111, 115, 62>>
special_tokens == <<pad_token, bos_token, eos_token>>

-----------------------------------------------------------------------------
(* str.encode('utf-8') and bytes.decode('utf-8', errors='replace') *)

Utf8Char(cp) ==
    IF cp < 128 THEN <<cp>>
    ELSE IF cp < 2048 THEN <<192 + (cp \div 64), 128 + (cp % 64)>>
    ELSE IF cp < 65536
         THEN <<224 + (cp \div 4096), 128 + ((cp \div 64) % 64), 128 + (cp % 64)>>
         ELSE <<240 + (cp \div 262144), 128 + ((cp \div 4096) % 64),
                128 + ((cp \div 64) % 64), 128 + (cp % 64)>>

RECURSIVE Utf8Encode(_)
Utf8Encode(text) ==
    IF text = <<>> THEN <<>> ELSE Utf8Char(Head(text)) \o Utf8Encode(Tail(text))

IsCont(b) == b >= 128 /\ b <= 191

\* Number of bytes the sequence led by b has; 0 when b cannot lead one.
SeqLen(b) ==
    IF b < 128 THEN 1
    ELSE IF b >= 194 /\ b <= 223 THEN 2
    ELSE IF b >= 224 /\ b <= 239 THEN 3
    ELSE IF b >= 240 /\ b <= 244 THEN 4
    ELSE 0

\* The second byte's range excludes overlong forms, surrogates and > U+10FFFF.
SecondOk(lead, b) ==
    IF lead = 224 THEN b >= 160 /\ b <= 191
    ELSE IF lead = 237 THEN b >= 128 /\ b <= 159
    ELSE IF lead = 240 THEN b >= 144 /\ b <= 191
    ELSE IF lead = 244 THEN b >= 128 /\ b <= 143
    ELSE IsCont(b)

\* How many bytes from position i on form a valid prefix of one sequence.
ValidPrefix(bs, i) ==
    LET n == SeqLen(bs[i])
        ok(k) == /\ i + k - 1 <= Len(bs)
                 /\ IF k = 2 THEN SecondOk(bs[i], bs[i + 1]) ELSE IsCont(bs[i + k - 1])
    IN  IF n <= 1 THEN n
        ELSE IF ~ok(2) THEN 1
        ELSE IF n = 2 THEN 2
        ELSE IF ~ok(3) THEN 2
        ELSE IF n = 3 THEN 3
        ELSE IF ~ok(4) THEN 3
        ELSE 4

CodePoint(bs, i, n) ==
    IF n = 1 THEN bs[i]
    ELSE IF n = 2 THEN (bs[i] - 192) * 64 + (bs[i + 1] - 128)
    ELSE IF n = 3 THEN (bs[i] - 224) * 4096 + (bs[i + 1] - 128) * 64 + (bs[i + 2] - 128)
    ELSE (bs[i] - 240) * 262144 + (bs[i + 1] - 128) * 4096
         + (bs[i + 2] - 128) * 64 + (bs[i + 3] - 128)

RECURSIVE Utf8DecodeFrom(_, _)
Utf8DecodeFrom(bs, i) ==
    IF i > Len(bs) THEN <<>>
    ELSE LET n == SeqLen(bs[i])
             k == ValidPrefix(bs, i)
         IN  IF n = 0 THEN <<ReplacementChar>> \o Utf8DecodeFrom(bs, i + 1)
             ELSE IF k = n THEN <<CodePoint(bs, i, n)>> \o Utf8DecodeFrom(bs, i + n)
             ELSE <<ReplacementChar>> \o Utf8DecodeFrom(bs, i + k)

Utf8Decode(bs) == Utf8DecodeFrom(bs, 1)

-----------------------------------------------------------------------------
(* dict: entries <<key, value>> in insertion order *)

DictHas(d, k) == \E i \in 1..Len(d) : d[i][1] = k

DictGet(d, k) == d[CHOOSE i \in 1..Len(d) : d[i][1] = k][2]

\* d.get(k, default)
DictGetOr(d, k, default) == IF DictHas(d, k) THEN DictGet(d, k) ELSE default

\* d[k] = v: a key already there keeps its place, a new one goes last
DictSet(d, k, v) ==
    IF DictHas(d, k)
    THEN [i \in 1..Len(d) |-> IF d[i][1] = k THEN <<k, v>> ELSE d[i]]
    ELSE Append(d, <<k, v>>)

\* list(d.values())
DictValues(d) == [i \in 1..Len(d) |-> d[i][2]]

-----------------------------------------------------------------------------
(* ByteTokenizer.init_vocab *)

\* len(self.vocab): the ids are 0..len-1
VocabLen(v) == Cardinality(DOMAIN v)

RECURSIVE AddTokens(_, _)
AddTokens(v, toks) ==
    IF toks = <<>> THEN v
    ELSE AddTokens(v @@ (VocabLen(v) :> Head(toks)), Tail(toks))

ByteInitVocab == AddTokens([idx \in 0..(NumBytes - 1) |-> <<idx>>], special_tokens)

\* token_to_id = {y: x for x, y in self.vocab.items()}: the last id of a token wins
TokenToId(v, tok) ==
    CHOOSE x \in DOMAIN v : v[x] = tok /\ \A y \in DOMAIN v : v[y] = tok => y <= x

SpecialIds(v) ==
    [pad_token_id |-> TokenToId(v, pad_token),
     bos_token_id |-> TokenToId(v, bos_token),
     eos_token_id |-> TokenToId(v, eos_token)]

\* the vocabulary and the ids init_vocab leaves, and len(self.vocab) then
ByteInitIds == SpecialIds(ByteInitVocab)

BaseSize == VocabLen(ByteInitVocab)

\* the slip of an init_vocab that does not empty the merge table
BpeInitMergesKept(m) == m

\* BpeTokenizer.init_vocab: the merge table after it, whatever it held
BpeInitMerges(m) == <<>>

-----------------------------------------------------------------------------
(* count_pairs *)

RECURSIVE CountIds(_, _, _)
CountIds(ids, i, pairs) ==
    IF i > Len(ids) - 1 THEN pairs
    ELSE LET pair == <<ids[i], ids[i + 1]>>
         IN  CountIds(ids, i + 1, DictSet(pairs, pair, DictGetOr(pairs, pair, 0) + 1))

RECURSIVE CountData(_, _, _)
CountData(data, k, pairs) ==
    IF k > Len(data) THEN pairs
    ELSE CountData(data, k + 1, CountIds(data[k], 1, pairs))

count_pairs(data) == CountData(data, 1, <<>>)

-----------------------------------------------------------------------------
(* max(cnt.keys(), key=lambda p: (cnt[p], sum(p))) *)

PairKey(cnt, p) == <<DictGet(cnt, p), p[1] + p[2]>>

\* tuple comparison x < y
KeyLess(x, y) == x[1] < y[1] \/ (x[1] = y[1] /\ x[2] < y[2])

\* max keeps the first of the items whose key is largest
RECURSIVE MaxFrom(_, _, _)
MaxFrom(cnt, i, best) ==
    IF i > Len(cnt) THEN best
    ELSE MaxFrom(cnt, i + 1,
                 IF KeyLess(PairKey(cnt, best), PairKey(cnt, cnt[i][1]))
                 THEN cnt[i][1] ELSE best)

\* defined for cnt # <<>>; max() of no keys raises ValueError
MaxPair(cnt) == MaxFrom(cnt, 2, cnt[1][1])

-----------------------------------------------------------------------------
(* merge *)

\* the slip of stepping over one element only after a match
SkipMatchedByOne(i) == i + 1

\* the step of i after a match
SkipMatched(i) == i + 2

RECURSIVE MergeLoop(_, _, _, _, _)
MergeLoop(numbers, pair, idx, i, result) ==
    IF i > Len(numbers) THEN result
    ELSE IF i < Len(numbers) /\ <<numbers[i], numbers[i + 1]>> = pair
         THEN MergeLoop(numbers, pair, idx, SkipMatched(i), Append(result, idx))
         ELSE MergeLoop(numbers, pair, idx, i + 1, Append(result, numbers[i]))

merge(numbers, pair, idx) == MergeLoop(numbers, pair, idx, 1, <<>>)

-----------------------------------------------------------------------------
(* BpeTokenizer.train: the parts of the loop *)

\* the slip of a range that is one too long
TrainRangeOneMore(mv, v) == mv - VocabLen(v) + 1

\* range(max_vocab - len(self.vocab)): how many iterations the loop has
TrainRange(mv, v) == mv - VocabLen(v)

\* list_of_ids = [list(text.encode('utf-8')) for text in texts]
EncodeTexts(t) == [i \in 1..Len(t) |-> Utf8Encode(t[i])]

\* the slip of a break that never comes: if freq == 0
TrainStopsNever(freq) == freq = 0

\* if freq == 1: break
TrainStops(freq) == freq = 1

\* the slip of an id one past the next free one
NewIdxSkipsOne(v) == VocabLen(v) + 1

\* new_idx = len(self.vocab)
NewIdx(v) == VocabLen(v)

\* the slip of joining the two expansions the wrong way round
NewExpansionSwapped(v, pair) == v[pair[2]] \o v[pair[1]]

\* self.vocab[pair[0]] + self.vocab[pair[1]]
NewExpansion(v, pair) == v[pair[1]] \o v[pair[2]]

\* the slip of not storing what merge returns
MergeAllDropped(l, pair, idx) == l

\* list_of_ids[i] = merge(ids, pair, new_idx), for every i
MergeAll(l, pair, idx) == [i \in 1..Len(l) |-> merge(l[i], pair, idx)]

-----------------------------------------------------------------------------
(* encode and decode *)

\* ByteTokenizer.encode
ByteEncode(text) == Utf8Encode(text)

\* the slip of a loop that gives up at two ids
EncodeContinuesAboveTwo(ids) == Len(ids) > 2

\* while len(ids) > 1
EncodeContinues(ids) == Len(ids) > 1

\* BpeTokenizer.encode's loop; applied is the list of the ids it substituted,
\* one for each iteration that merged
RECURSIVE BpeEncodeLoop(_, _, _)
BpeEncodeLoop(m, ids, applied) ==
    IF ~EncodeContinues(ids) THEN [ids |-> ids, applied |-> applied]
    ELSE LET cnt  == count_pairs(<<ids>>)
             pair == MaxPair(cnt)
         IN  IF ~DictHas(m, pair) THEN [ids |-> ids, applied |-> applied]
             ELSE LET idx == DictGet(m, pair)
                  IN  BpeEncodeLoop(m, merge(ids, pair, idx), Append(applied, idx))

BpeEncode(m, text) == BpeEncodeLoop(m, Utf8Encode(text), <<>>)

RECURSIVE JoinBytes(_, _)
JoinBytes(v, ids) ==
    IF ids = <<>> THEN <<>> ELSE v[Head(ids)] \o JoinBytes(v, Tail(ids))

\* ByteTokenizer.decode: self.vocab[idx] of an unknown id raises KeyError
Decode(v, ids) ==
    IF \E i \in 1..Len(ids) : ids[i] \notin DOMAIN v
    THEN [status |-> "KeyError", text |-> <<>>]
    ELSE [status |-> "ok", text |-> Utf8Decode(JoinBytes(v, ids))]

-----------------------------------------------------------------------------
(* Inputs *)

SeqsUpTo(S, n) == UNION {[1..k -> S] : k \in 0..n}

\* the lists of at most k texts with at most n code points together
RECURSIVE CorporaOf(_, _)
CorporaOf(k, n) ==
    IF k = 0 THEN {<<>>}
    ELSE {<<>>} \cup
         UNION {{<<t>> \o c : c \in CorporaOf(k - 1, n - Len(t))} :
                    t \in SeqsUpTo(Alphabet, n)}

Corpora == CorporaOf(MaxTexts, MaxCorpusChars)

Targets == (BaseSize - 1)..(BaseSize + MaxExtraVocab)

EncodeInputs == SeqsUpTo(Alphabet, MaxEncodeChars)

MergeIds == 0..MaxMergeId

MergeLists == SeqsUpTo(MergeIds, MaxMergeLen)

\* the replacement id of a direct call of merge: one that is not in the list
MergeIdx == MaxMergeId + 1

NoDec == [status |-> "none", text |-> <<>>]

NoCall == [numbers |-> <<>>, pair |-> <<0, 0>>, idx |-> 0, result |-> <<>>]

-----------------------------------------------------------------------------
(* The tokenizer object and the calls on it.  pc is "idle" between calls,  *)
(* "train_loop" at the head of an iteration of train's loop, "trained"     *)
(* when train has stopped and its frame still holds its locals, "encoded"  *)
(* and "decoded" while the caller holds what encode and decode returned.   *)
(* outcome says how the last train stopped; had_merges is a history        *)
(* variable: whether the merge table held entries when train was called.   *)

NoTrainLocals ==
    /\ texts' = <<>>
    /\ max_vocab' = 0
    /\ list_of_ids' = <<>>
    /\ remaining' = 0

NoResults ==
    /\ enc_text' = <<>>
    /\ enc_ids' = <<>>
    /\ enc_applied' = <<>>
    /\ dec' = NoDec

\* __init__ of either class
Init ==
    /\ cls \in {"ByteTokenizer", "BpeTokenizer"}
    /\ vocab = ByteInitVocab
    /\ merges = <<>>
    /\ special_ids = ByteInitIds
    /\ pc = "idle"
    /\ texts = <<>>
    /\ max_vocab = 0
    /\ list_of_ids = <<>>
    /\ remaining = 0
    /\ outcome = "none"
    /\ had_merges = FALSE
    /\ enc_text = <<>>
    /\ enc_ids = <<>>
    /\ enc_applied = <<>>
    /\ dec = NoDec
    /\ mcall = NoCall

\* ByteTokenizer.train
ByteTrain ==
    /\ pc = "idle"
    /\ cls = "ByteTokenizer"
    /\ texts' \in Corpora
    /\ max_vocab' \in Targets
    /\ vocab' = ByteInitVocab
    /\ special_ids' = ByteInitIds
    /\ had_merges' = (merges # <<>>)
    /\ outcome' = "returned"
    /\ pc' = "trained"
    /\ UNCHANGED <<cls, merges, list_of_ids, remaining, enc_text, enc_ids,
                   enc_applied, dec, mcall>>

\* BpeTokenizer.train, max_vocab <= len(self.vocab): returns at once
BpeTrainNoop ==
    /\ pc = "idle"
    /\ cls = "BpeTokenizer"
    /\ texts' \in Corpora
    /\ max_vocab' \in {mv \in Targets : mv <= BaseSize}
    /\ vocab' = ByteInitVocab
    /\ special_ids' = ByteInitIds
    /\ merges' = BpeInitMerges(merges)
    /\ had_merges' = (merges # <<>>)
    /\ outcome' = "noop"
    /\ pc' = "trained"
    /\ UNCHANGED <<cls, list_of_ids, remaining, enc_text, enc_ids, enc_applied,
                   dec, mcall>>

\* BpeTokenizer.train up to the head of the loop
BpeTrainStart ==
    /\ pc = "idle"
    /\ cls = "BpeTokenizer"
    /\ texts' \in Corpora
    /\ max_vocab' \in {mv \in Targets : mv > BaseSize}
    /\ vocab' = ByteInitVocab
    /\ special_ids' = ByteInitIds
    /\ merges' = BpeInitMerges(merges)
    /\ list_of_ids' = EncodeTexts(texts')
    /\ remaining' = TrainRange(max_vocab', vocab')
    /\ had_merges' = (merges # <<>>)
    /\ outcome' = "running"
    /\ pc' = "train_loop"
    /\ UNCHANGED <<cls, enc_text, enc_ids, enc_applied, dec, mcall>>

\* an iteration with no pair to count: max() raises ValueError
TrainRaise ==
    /\ pc = "train_loop"
    /\ count_pairs(list_of_ids) = <<>>
    /\ outcome' = "ValueError"
    /\ pc' = "trained"
    /\ UNCHANGED <<cls, had_merges, vocab, merges, special_ids, texts, max_vocab,
                   list_of_ids, remaining, enc_text, enc_ids, enc_applied, dec, mcall>>

\* an iteration that breaks
TrainBreak ==
    /\ pc = "train_loop"
    /\ LET cnt == count_pairs(list_of_ids)
       IN  /\ cnt # <<>>
           /\ TrainStops(DictGet(cnt, MaxPair(cnt)))
    /\ outcome' = "break"
    /\ pc' = "trained"
    /\ UNCHANGED <<cls, had_merges, vocab, merges, special_ids, texts, max_vocab,
                   list_of_ids, remaining, enc_text, enc_ids, enc_applied, dec, mcall>>

\* an iteration that merges; the loop ends after the last one of the range
TrainMerge ==
    /\ pc = "train_loop"
    /\ LET cnt == count_pairs(list_of_ids)
       IN  /\ cnt # <<>>
           /\ ~TrainStops(DictGet(cnt, MaxPair(cnt)))
           /\ LET pair    == MaxPair(cnt)
                  new_idx == NewIdx(vocab)
              IN  /\ merges' = DictSet(merges, pair, new_idx)
                  /\ vocab' = (new_idx :> NewExpansion(vocab, pair)) @@ vocab
                  /\ list_of_ids' = MergeAll(list_of_ids, pair, new_idx)
    /\ remaining' = remaining - 1
    /\ IF remaining' = 0
       THEN pc' = "trained" /\ outcome' = "exhausted"
       ELSE pc' = "train_loop" /\ outcome' = outcome
    /\ UNCHANGED <<cls, had_merges, special_ids, texts, max_vocab, enc_text, enc_ids,
                   enc_applied, dec, mcall>>

\* train's frame is gone: it returned, or the caller caught what it raised
TrainReturn ==
    /\ pc = "trained"
    /\ pc' = "idle"
    /\ NoTrainLocals
    /\ had_merges' = FALSE
    /\ UNCHANGED <<cls, vocab, merges, special_ids, outcome, enc_text, enc_ids,
                   enc_applied, dec, mcall>>

\* ByteTokenizer.encode
ByteEncodeCall ==
    /\ pc = "idle"
    /\ cls = "ByteTokenizer"
    /\ enc_text' \in EncodeInputs
    /\ enc_ids' = ByteEncode(enc_text')
    /\ enc_applied' = <<>>
    /\ pc' = "encoded"
    /\ UNCHANGED <<cls, had_merges, vocab, merges, special_ids, texts, max_vocab,
                   list_of_ids, remaining, outcome, dec, mcall>>

\* BpeTokenizer.encode
BpeEncodeCall ==
    /\ pc = "idle"
    /\ cls = "BpeTokenizer"
    /\ enc_text' \in EncodeInputs
    /\ enc_ids' = BpeEncode(merges, enc_text').ids
    /\ enc_applied' = BpeEncode(merges, enc_text').applied
    /\ pc' = "encoded"
    /\ UNCHANGED <<cls, had_merges, vocab, merges, special_ids, texts, max_vocab,
                   list_of_ids, remaining, outcome, dec, mcall>>

\* decode of what encode returned
DecodeCall ==
    /\ pc = "encoded"
    /\ dec' = Decode(vocab, enc_ids)
    /\ pc' = "decoded"
    /\ UNCHANGED <<cls, had_merges, vocab, merges, special_ids, texts, max_vocab,
                   list_of_ids, remaining, outcome, enc_text, enc_ids, enc_applied, mcall>>

\* the caller lets go of what encode and decode returned
Forget ==
    /\ pc \in {"encoded", "decoded"}
    /\ pc' = "idle"
    /\ NoResults
    /\ UNCHANGED <<cls, had_merges, vocab, merges, special_ids, texts, max_vocab,
                   list_of_ids, remaining, outcome, mcall>>

Next ==
    \/ ByteTrain
    \/ BpeTrainNoop
    \/ BpeTrainStart
    \/ TrainRaise
    \/ TrainBreak
    \/ TrainMerge
    \/ TrainReturn
    \/ ByteEncodeCall
    \/ BpeEncodeCall
    \/ DecodeCall
    \/ Forget

Spec == Init /\ [][Next]_vars

-----------------------------------------------------------------------------
(* Direct calls of merge *)

MergeCall ==
    /\ pc = "idle"
    /\ \E numbers \in MergeLists, pair \in MergeIds \X MergeIds :
          mcall' = [numbers |-> numbers, pair |-> pair, idx |-> MergeIdx,
                    result |-> merge(numbers, pair, MergeIdx)]
    /\ pc' = "merged"
    /\ UNCHANGED <<cls, had_merges, vocab, merges, special_ids, texts, max_vocab,
                   list_of_ids, remaining, outcome, enc_text, enc_ids, enc_applied, dec>>

NextMerge == MergeCall

SpecMerge == Init /\ [][NextMerge]_vars

-----------------------------------------------------------------------------
(* Definitions the properties are stated with *)

IsBpe == cls = "BpeTokenizer"

\* the length of the longest list of l
MaxLenOf(l) ==
    IF l = <<>> THEN 0
    ELSE CHOOSE n \in {Len(l[k]) : k \in 1..Len(l)} : \A k \in 1..Len(l) : Len(l[k]) <= n

Max(a, b) == IF a >= b THEN a ELSE b

\* the positions <<k, i>> of the adjacent pairs of the lists of l
PairPositions(l) == {<<k, i>> \in (1..Len(l)) \X (1..MaxLenOf(l)) : i < Len(l[k])}

PairAt(l, pos) == <<l[pos[1]][pos[2]], l[pos[1]][pos[2] + 1]>>

PairsIn(l) == {PairAt(l, pos) : pos \in PairPositions(l)}

\* how often pair p stands in the lists of l
Occurrences(l, p) == Cardinality({pos \in PairPositions(l) : PairAt(l, pos) = p})

\* p comes first among the pairs of the one list s that are most frequent in it
\* and, of those, have the largest sum
TopRanked(s, p) ==
    LET first(q) == CHOOSE i \in 1..(Len(s) - 1) :
                        /\ <<s[i], s[i + 1]>> = q
                        /\ \A j \in 1..(i - 1) : <<s[j], s[j + 1]>> # q
    IN  /\ p \in PairsIn(<<s>>)
        /\ \A q \in PairsIn(<<s>>) \ {p} :
              \/ Occurrences(<<s>>, q) < Occurrences(<<s>>, p)
              \/ /\ Occurrences(<<s>>, q) = Occurrences(<<s>>, p)
                 /\ q[1] + q[2] < p[1] + p[2]
              \/ /\ Occurrences(<<s>>, q) = Occurrences(<<s>>, p)
                 /\ q[1] + q[2] = p[1] + p[2]
                 /\ first(p) < first(q)

\* one substitution of one adjacent pair that is a key of the merge table m
OneSubstitution(m, s) ==
    {SubSeq(s, 1, i - 1) \o <<DictGet(m, <<s[i], s[i + 1]>>)>>
         \o SubSeq(s, i + 2, Len(s)) :
        i \in {j \in 1..(Len(s) - 1) : DictHas(m, <<s[j], s[j + 1]>>)}}

RECURSIVE ReachFrom(_, _)
ReachFrom(m, S) ==
    LET new == (UNION {OneSubstitution(m, s) : s \in S}) \ S
    IN  IF new = {} THEN S ELSE ReachFrom(m, S \cup new)

\* every id sequence substitutions of merge-table pairs, in any order, lead to
Reachable(m, ids) == ReachFrom(m, {ids})

\* greedy left-to-right substitution, by the head of the list
RECURSIVE GreedySubst(_, _, _)
GreedySubst(s, pair, idx) ==
    IF s = <<>> THEN <<>>
    ELSE IF Len(s) >= 2 /\ s[1] = pair[1] /\ s[2] = pair[2]
         THEN <<idx>> \o GreedySubst(SubSeq(s, 3, Len(s)), pair, idx)
         ELSE <<s[1]>> \o GreedySubst(Tail(s), pair, idx)

\* s with every idx put back to the pair
RECURSIVE Unmerge(_, _, _)
Unmerge(s, pair, idx) ==
    IF s = <<>> THEN <<>>
    ELSE (IF Head(s) = idx THEN pair ELSE <<Head(s)>>) \o Unmerge(Tail(s), pair, idx)

\* train on a tokenizer that __init__ has just made, run to where it stops
RECURSIVE FreshLoop(_, _, _, _)
FreshLoop(v, m, l, r) ==
    LET cnt == count_pairs(l)
    IN  IF cnt = <<>> THEN <<v, m, "ValueError">>
        ELSE IF TrainStops(DictGet(cnt, MaxPair(cnt))) THEN <<v, m, "break">>
        ELSE LET pair    == MaxPair(cnt)
                 new_idx == NewIdx(v)
                 v2      == (new_idx :> NewExpansion(v, pair)) @@ v
                 m2      == DictSet(m, pair, new_idx)
                 l2      == MergeAll(l, pair, new_idx)
             IN  IF r = 1 THEN <<v2, m2, "exhausted">>
                 ELSE FreshLoop(v2, m2, l2, r - 1)

FreshTrain(t, mv) ==
    IF mv <= BaseSize THEN <<ByteInitVocab, <<>>, "noop">>
    ELSE FreshLoop(ByteInitVocab, <<>>, EncodeTexts(t), TrainRange(mv, ByteInitVocab))

-----------------------------------------------------------------------------
(* C1 *)

\* C1: decode(encode(T)) = T for every text T, under the base vocabulary of
\* ByteTokenizer and under every vocabulary and merge table train leaves.
C1_RoundTrip ==
    pc = "decoded" => dec.status = "ok" /\ dec.text = enc_text

\* a text with a two-byte character that two merges shortened, decoded
C1_Witness ==
    /\ pc = "decoded"
    /\ IsBpe
    /\ Len(enc_applied) >= 2
    /\ \E i \in 1..Len(enc_text) : enc_text[i] = 233
    /\ dec.text = enc_text

-----------------------------------------------------------------------------
(* C2 *)

\* C2, as claimed: no id sequence that substitutions of merge-table pairs lead
\* to from the text's bytes is shorter than what encode returns.
C2_Shortest ==
    (pc = "encoded" /\ IsBpe) =>
        \A s \in Reachable(merges, Utf8Encode(enc_text)) : Len(s) >= Len(enc_ids)

\* C2, amended: what encode returns is an id sequence that substitutions of
\* merge-table pairs lead to from the text's bytes, and it has at most one id
\* or its top-ranked pair (most frequent in it, then largest sum, then first
\* to occur) is no key of the merge table.
C2_StopsAtTopRanked ==
    (pc = "encoded" /\ IsBpe) =>
        /\ enc_ids \in Reachable(merges, Utf8Encode(enc_text))
        /\ \/ Len(enc_ids) <= 1
           \/ \A p \in PairsIn(<<enc_ids>>) :
                 TopRanked(enc_ids, p) => ~DictHas(merges, p)

\* encode merged, stopped at a top-ranked pair that is no key, and a shorter
\* sequence was within reach
C2_Witness ==
    /\ pc = "encoded"
    /\ IsBpe
    /\ enc_applied # <<>>
    /\ Len(enc_ids) > 1
    /\ \E s \in Reachable(merges, Utf8Encode(enc_text)) : Len(s) < Len(enc_ids)

-----------------------------------------------------------------------------
(* C3 *)

\* C3: the ids one encode call substitutes in its successive iterations are
\* strictly increasing, that is, merges are applied in the order train
\* learned them.
C3_LearnedOrder ==
    (pc \in {"encoded", "decoded"}) =>
        \A i, j \in 1..Len(enc_applied) : i < j => enc_applied[i] < enc_applied[j]

-----------------------------------------------------------------------------
(* C4 *)

\* C4, as claimed: during and after BpeTokenizer.train the vocabulary is never
\* larger than the target size.
C4_NeverExceedsTarget ==
    (pc \in {"train_loop", "trained"} /\ IsBpe) => VocabLen(vocab) <= max_vocab

C4_Step ==
    /\ (pc' \in {"train_loop", "trained"} /\ IsBpe) =>
           /\ VocabLen(vocab') <= Max(max_vocab', 259)
           /\ max_vocab' < 259 => VocabLen(vocab') = 259
    /\ pc = "train_loop" => VocabLen(vocab') >= VocabLen(vocab)

\* C4, amended: across the iterations of BpeTokenizer.train the vocabulary
\* size never decreases and never exceeds the larger of the target size and
\* 259; so it ends at the target or below when the target is at least 259,
\* and at 259 when the target is smaller.
C4_Bounded == [][C4_Step]_vars

\* the loop ran out at the target, above the base size
C4_Witness ==
    /\ pc = "trained"
    /\ IsBpe
    /\ outcome = "exhausted"
    /\ max_vocab > 259
    /\ VocabLen(vocab) = max_vocab

-----------------------------------------------------------------------------
(* C5 *)

\* C5: BpeTokenizer.train never raises: with no adjacent pair left in the
\* working corpus it stops as it does by the frequency-1 rule.
C5_NeverRaises == outcome # "ValueError"

-----------------------------------------------------------------------------
(* C6 *)

C6_Step ==
    /\ (pc = "train_loop" /\ PairsIn(list_of_ids) # {}
          /\ \A p \in PairsIn(list_of_ids) : Occurrences(list_of_ids, p) = 1) =>
           /\ pc' = "trained"
           /\ merges' = merges
           /\ vocab' = vocab
    /\ (pc = "train_loop" /\ merges' # merges) =>
           \E p \in PairsIn(list_of_ids) :
               /\ Occurrences(list_of_ids, p) >= 2
               /\ merges' = Append(merges, <<p, VocabLen(vocab)>>)
    /\ pc = "trained" => (merges' = merges /\ vocab' = vocab)

\* C6: when the highest pair frequency at the start of an iteration is 1,
\* training stops and the merge table and the vocabulary gain nothing more;
\* every pair the merge table gains had frequency at least 2 in the working
\* corpus when it was selected.
C6_EarlyStop == [][C6_Step]_vars

\* training stopped by the frequency-1 rule after it had merged
C6_Witness ==
    /\ pc = "trained"
    /\ IsBpe
    /\ outcome = "break"
    /\ merges # <<>>

-----------------------------------------------------------------------------
(* C7 *)

\* C7: merge is the greedy left-to-right substitution without overlaps: a
\* match at the current position gives idx and skips both elements, anything
\* else is kept; three a's with the pair (a, a) give [idx, a]; putting the
\* pair back for every idx gives the list merge was called with.
C7_GreedySubstitution ==
    pc = "merged" =>
        /\ mcall.result = GreedySubst(mcall.numbers, mcall.pair, mcall.idx)
        /\ Unmerge(mcall.result, mcall.pair, mcall.idx) = mcall.numbers
        /\ (mcall.numbers = <<0, 0, 0, 1>> /\ mcall.pair = <<0, 0>>) =>
               mcall.result = <<mcall.idx, 0, 1>>
        /\ (mcall.numbers = <<1, 2, 2, 0>> /\ mcall.pair = <<2, 0>>) =>
               mcall.result = <<1, 2, mcall.idx>>

\* three equal elements merged with the pair of them
C7_Witness ==
    /\ pc = "merged"
    /\ mcall.numbers = <<0, 0, 0>>
    /\ mcall.pair = <<0, 0>>
    /\ mcall.result = <<mcall.idx, 0>>

-----------------------------------------------------------------------------
(* C8 *)

\* C8: what BpeTokenizer.train leaves depends on its arguments alone: the
\* vocabulary and the merge table (and how it stopped) are those of the same
\* call on a tokenizer just constructed, whatever was trained before; a
\* target of at most 259 leaves the 259 base entries and no merge.
C8_FreshResult ==
    (pc = "trained" /\ IsBpe) =>
        /\ <<vocab, merges, outcome>> = FreshTrain(texts, max_vocab)
        /\ max_vocab <= 259 => (vocab = ByteInitVocab /\ merges = <<>>)

\* a call with a small target on a tokenizer that held merges
C8_WitnessNoop ==
    /\ pc = "trained"
    /\ IsBpe
    /\ had_merges
    /\ max_vocab <= 259
    /\ merges = <<>>
    /\ VocabLen(vocab) = 259

\* a call that merged on a tokenizer that held merges
C8_Witness ==
    /\ pc = "trained"
    /\ IsBpe
    /\ had_merges
    /\ Len(merges) >= 2

-----------------------------------------------------------------------------
(* C9 *)

\* C9: after train on the one text T, encode(T) returns the id sequence the
\* training loop held for T when it stopped, having substituted the ids of
\* the merge table in the order train recorded them; with no loop run
\* (target at most 259) that is T's bytes.
C9_EncodeReproduces ==
    (pc = "trained" /\ IsBpe /\ Len(texts) = 1) =>
        LET r == BpeEncode(merges, texts[1])
        IN  IF outcome = "noop"
            THEN r.ids = Utf8Encode(texts[1]) /\ r.applied = <<>>
            ELSE r.ids = list_of_ids[1] /\ r.applied = DictValues(merges)

\* training on one text recorded two merges and stopped
C9_Witness ==
    /\ pc = "trained"
    /\ IsBpe
    /\ Len(texts) = 1
    /\ Len(merges) >= 2
    /\ Len(list_of_ids[1]) >= 2
    /\ BpeEncode(merges, texts[1]).ids = list_of_ids[1]

-----------------------------------------------------------------------------
(* C10 *)

C10_Inv ==
    /\ VocabLen(ByteInitVocab) = 259
    /\ DOMAIN vocab = 0..(VocabLen(vocab) - 1)
    /\ Len(merges) = VocabLen(vocab) - 259
    /\ \A i \in 1..Len(merges) :
          LET a == merges[i][1][1]
              b == merges[i][1][2]
              k == merges[i][2]
          IN  /\ k = 259 + i - 1
              /\ a >= 0 /\ a < k
              /\ b >= 0 /\ b < k
              /\ vocab[k] = vocab[a] \o vocab[b]
    /\ \A i, j \in 1..Len(merges) : merges[i][1] = merges[j][1] => i = j

C10_Step ==
    /\ \A i \in 0..258 : vocab'[i] = vocab[i]
    /\ pc = "train_loop" =>
           \A i \in DOMAIN vocab : i \in DOMAIN vocab' /\ vocab'[i] = vocab[i]
    /\ (pc = "train_loop" /\ Len(merges) > 0) =>
           /\ Len(merges') >= Len(merges)
           /\ \A i \in 1..Len(merges) : merges'[i] = merges[i]

\* C10: after every training iteration the merge table has len(vocab) - 259
\* entries, their values in insertion order are 259, 260, ... without gaps,
\* each entry (a, b) -> k has a < k, b < k and vocab[k] = vocab[a] + vocab[b],
\* and no expansion once assigned changes while training goes on (the 259
\* base entries never change).
C10_Consistent == []C10_Inv /\ [][C10_Step]_vars

\* a second merge whose pair holds the id of the first
C10_Witness ==
    /\ pc \in {"train_loop", "trained"}
    /\ Len(merges) >= 2
    /\ merges[2][1][1] = 259

====
